---- MODULE Spec2Model ----
(***************************************************************************)
(* The agent orchestrator of src/sifiso_core_files.py (AgentTask,          *)
(* AgentOrchestrator) as a state machine over the asyncio event loop.      *)
(*                                                                         *)
(* One step of the model is one uninterrupted run of a coroutine between   *)
(* two suspension points.  The only suspension points of the orchestrator  *)
(* are `await agent.process(...)` (line 214) and `await asyncio.gather`    *)
(* (lines 235, 260).  An agent whose process() returns without suspending  *)
(* produces the same states as one that is resumed at once, so every       *)
(* process() call is modelled as suspending.                               *)
(*                                                                         *)
(* Text is a sequence of tokens in which "." is a token of its own, so     *)
(* str.split('.') is computed, not assumed.  Python values are records     *)
(* tagged with their type.                                                 *)
(*                                                                         *)
(* The inference engine of the same file (SIFISOInferenceEngine) is a      *)
(* second state machine, EngineSpec: its methods are plain functions that  *)
(* callers may run from several threads, so a call is split where another  *)
(* thread's call can come in between and change what it sees.  Nothing in  *)
(* the source connects the engine and the orchestrator: each               *)
(* specification leaves the other's state as constructed.                  *)
(***************************************************************************)
EXTENDS Integers, Sequences, FiniteSets, TLC

VARIABLES
    agents,       \* AgentOrchestrator.agents: dict agent_type -> agent instance
    tasks,        \* the AgentTask objects created so far, by identity
    calls,        \* the execute_task coroutines started so far
    invocations,  \* the agent.process(parameters) calls made so far, in order
    routines,     \* the orchestrate_routine coroutines started so far
    model_cache,     \* SIFISOInferenceEngine.model_cache: dict model_id -> entry
    result_cache,    \* SIFISOInferenceEngine.result_cache: dict cache_key -> result
    inference_queue, \* SIFISOInferenceEngine.inference_queue
    sessions,        \* the ort.InferenceSession objects created so far, in order
    loads,           \* the load_model calls made so far
    requests,        \* the run_inference calls made so far, in order of call
    runs,            \* the session.run(...) invocations made so far, in order
    overlapped       \* whether an engine call ever began while another was in flight

\* the state of the orchestrator and the state of the inference engine
orchestrator == <<agents, tasks, calls, invocations, routines>>
engine == <<model_cache, result_cache, inference_queue, sessions, loads, requests,
            runs, overlapped>>

vars == <<agents, tasks, calls, invocations, routines, model_cache, result_cache,
          inference_queue, sessions, loads, requests, runs, overlapped>>

----------------------------------------------------------------------------
(* Bounds of the model *)

\* The application drives the orchestrator in one of two ways: it builds
\* tasks and passes them to execute_task, or it runs routines.  The two share
\* only the registry, which no task execution writes, so a behaviour of the
\* model does one or the other.
\* AgentTask objects the application builds
MaxCallerTasks == 1
\* execute_task calls the application makes
MaxCallerCalls == 3
\* orchestrate_routine calls the application makes
MaxRoutines == 1
\* execute_task calls made by the routines together
MaxRoutineCalls == 4

----------------------------------------------------------------------------
(* Python values *)

None == [type |-> "NoneType"]
Dict(items) == [type |-> "dict", items |-> items]

\* class AgentPriority(Enum)
CRITICAL == 1
HIGH == 2
NORMAL == 3
LOW == 4
AgentPriority == {CRITICAL, HIGH, NORMAL, LOW}

\* str(e) of an exception built from one message argument
Str(e) == e.msg

NoExc == [kind |-> "", msg |-> <<>>]

\* Text: "." is the separator token
Dot == "."

\* task_type.split('.')[-1] in place of [0]: the text after the last "."
RECURSIVE SplitLast(_)
SplitLast(s) ==
    IF s = <<>> THEN <<>>
    ELSE IF Head(s) = Dot THEN SplitLast(Tail(s))
    ELSE IF \E i \in DOMAIN s : s[i] = Dot THEN SplitLast(Tail(s))
    ELSE s

\* task_type.split('.')[0]: the text before the first "."
RECURSIVE SplitFirst(_)
SplitFirst(s) ==
    IF s = <<>> \/ Head(s) = Dot THEN <<>>
    ELSE <<Head(s)>> \o SplitFirst(Tail(s))

\* f"No agent registered for: {agent_type}"
NoAgentMsg(agent_type) == <<"No agent registered for: ">> \o agent_type

\* raise ValueError(f"No agent registered for: {agent_type}")
NoAgentError(agent_type) == [kind |-> "ValueError", msg |-> NoAgentMsg(agent_type)]

\* KeyError raised by a failed dict lookup d[key]
KeyError(key) == [kind |-> "KeyError", msg |-> <<key>>]

----------------------------------------------------------------------------
(* Inputs: what callers and agents may supply *)

\* agent instances handed to register_agent: at startup, and later
StartupInstance == "agentA"
LaterInstances == {"agentB"}

home == <<"home">>
communication == <<"communication">>
wellness == <<"wellness">>
travel == <<"travel">>

\* agent_type names handed to register_agent at startup
AgentTypes == {home, communication, wellness, travel}

\* agent_type names handed to register_agent later on
LaterTypes == {home, travel}

\* registries left by the register_agent calls of startup
StartupRegistries ==
    { [k \in S |-> StartupInstance] :
        S \in {{}, {travel}, {home, communication, wellness}, AgentTypes} }

\* task_type values a caller may pass to AgentTask(...)
CallerTaskTypes ==
    { <<"travel", Dot, "route", Dot, "v2">>,
      <<"wellness">> }

\* priority values a caller may pass to AgentTask(...)
CallerPriorities == {HIGH}

\* values an agent's process() may return for a task: a disruption report
\* (well-formed or not) from the disruption detector, and from any other
\* operation a result that names the operation
AgentValues(task) ==
    IF task.task_type = <<"travel", Dot, "disruption_detector">>
    THEN { Dict([is_disrupted |-> TRUE]),
           Dict([is_disrupted |-> FALSE]),
           Dict([eta |-> "soon"]) }
    ELSE { Dict([handled |-> task.task_type]) }

\* exceptions an agent's process() may raise for a task (subclasses of
\* Exception): one whose message names the operation, and from the disruption
\* detector also one with an empty message
AgentExceptions(task) ==
    { [kind |-> "RuntimeError", msg |-> task.task_type] }
    \cup IF task.task_type = <<"travel", Dot, "disruption_detector">>
         THEN { [kind |-> "TimeoutError", msg |-> <<>>] }
         ELSE {}

FullContext ==
    [trip_data |-> "trip", location |-> "here", destination |-> "there",
     notify_contacts |-> "contacts", sleep_data |-> "night"]

\* context dicts a caller may pass to orchestrate_routine
Contexts == { FullContext, [trip_data |-> "trip"] }

RoutineNames == {"morning_routine", "travel_disruption", "evening_routine"}

\* context.get(key)
Get(context, key) == IF key \in DOMAIN context THEN context[key] ELSE "None"

----------------------------------------------------------------------------
(* Outcomes of a coroutine or future *)

NoOutcome == [kind |-> "none", value |-> None, exc |-> NoExc]
Return(v) == [kind |-> "return", value |-> v, exc |-> NoExc]
Raise(e) == [kind |-> "raise", value |-> None, exc |-> e]

----------------------------------------------------------------------------
(* AgentTask *)

\* AgentTask.__init__
AgentTask(task_type, parameters, priority) ==
    [task_type |-> task_type, parameters |-> parameters, priority |-> priority,
     status |-> "pending", result |-> None]

Terminal == {"completed", "failed"}

----------------------------------------------------------------------------
(* AgentOrchestrator.execute_task, piece by piece *)

\* agent_type = task.task_type.split('.')[0]
AgentTypeOf(task) == SplitFirst(task.task_type)

\* agent_type not in self.agents
Unregistered(ag, task) == AgentTypeOf(task) \notin DOMAIN ag

\* agent = self.agents[agent_type]
Resolve(ag, task) == ag[AgentTypeOf(task)]

\* dispatch that also raises the task's priority
MarkRunningBoosted(task) == [task EXCEPT !.status = "running", !.priority = CRITICAL]

\* task.status = 'running'
MarkRunning(task) == [task EXCEPT !.status = "running"]

\* task.status = 'completed'; task.result = result
MarkCompleted(task, result) ==
    [task EXCEPT !.status = "completed", !.result = result]

\* task.status = 'failed'; task.result = {'error': str(e)}
MarkFailed(task, e) ==
    [task EXCEPT !.status = "failed", !.result = Dict([error |-> Str(e)])]

\* what execute_task hands its caller when the agent returned: return result
OnAgentReturn(result) == Return(result)

\* `return task.result` in place of `raise`: the failure is swallowed
OnAgentRaiseSwallowed(e) == Return(Dict([error |-> Str(e)]))

\* what execute_task hands its caller when the agent raised: raise
OnAgentRaise(e) == Raise(e)

\* The execute_task coroutine for task t, run up to its first suspension:
\* it has raised (no agent registered) or it awaits agent.process.
\* routine = 0 for a call made by the application itself.  agentOut is what
\* agent.process did (nothing yet), out what execute_task handed its caller.
StartCall(ag, tk, t, routine) ==
    IF Unregistered(ag, tk[t])
    THEN [task |-> t, agent |-> "", routine |-> routine, agentOut |-> NoOutcome,
          out |-> Raise(NoAgentError(AgentTypeOf(tk[t])))]
    ELSE [task |-> t, agent |-> Resolve(ag, tk[t]), routine |-> routine,
          agentOut |-> NoOutcome, out |-> NoOutcome]

\* the task marked failed when no agent is registered for it
StartTaskMarkFailed(ag, task) ==
    IF Unregistered(ag, task)
    THEN MarkFailed(task, NoAgentError(AgentTypeOf(task)))
    ELSE MarkRunning(task)

\* the task after that first run: untouched if the call raised at once
StartTask(ag, task) == IF Unregistered(ag, task) THEN task ELSE MarkRunning(task)

\* the agent.process(task.parameters) call that first run makes, if any
StartInvocations(ag, tk, t, c) ==
    IF Unregistered(ag, tk[t]) THEN <<>>
    ELSE << [agent |-> Resolve(ag, tk[t]), parameters |-> tk[t].parameters,
             task |-> t, call |-> c] >>

Awaiting(c) == c \in DOMAIN calls /\ calls[c].out.kind = "none"

----------------------------------------------------------------------------
(* AgentOrchestrator.orchestrate_routine, piece by piece *)

\* tasks = [AgentTask(...), ...] of 'morning_routine'
MorningTasks(context) ==
    << AgentTask(<<"home", Dot, "coffee_maker">>, Dict([action |-> "brew"]), HIGH),
       AgentTask(<<"home", Dot, "lights">>,
                 Dict([action |-> "adjust", brightness |-> 70]), NORMAL),
       AgentTask(<<"communication", Dot, "news">>,
                 Dict([categories |-> <<"tech", "business">>]), NORMAL),
       AgentTask(<<"wellness", Dot, "sleep_analysis">>,
                 Dict([night_data |-> Get(context, "sleep_data")]), LOW) >>

\* disruption_task = AgentTask('travel.disruption_detector', ...)
DisruptionTask(context) ==
    AgentTask(<<"travel", Dot, "disruption_detector">>,
              Dict([trip_data |-> context["trip_data"]]), CRITICAL)

\* reroute_task = AgentTask('travel.route_optimizer', ...)
RerouteTask(context) ==
    AgentTask(<<"travel", Dot, "route_optimizer">>,
              Dict([current_location |-> context["location"],
                    destination |-> context["destination"]]), CRITICAL)

\* notify_task = AgentTask('communication.contact_notifier', ...)
NotifyTask(context) ==
    AgentTask(<<"communication", Dot, "contact_notifier">>,
              Dict([contacts |-> context["notify_contacts"],
                    message |-> "Running late"]), HIGH)

\* the context keys the dependent tasks of 'travel_disruption' read, in order
DependentKeys == <<"location", "destination", "notify_contacts">>

\* the first key of keys that context lacks, or "" if it has them all
RECURSIVE FirstMissing(_, _)
FirstMissing(context, keys) ==
    IF keys = <<>> THEN ""
    ELSE IF Head(keys) \notin DOMAIN context THEN Head(keys)
    ELSE FirstMissing(context, Tail(keys))

\* the gate's failure caught and ignored: the routine carries on
GateDecisionIgnoringFailure(co, context) ==
    IF co.kind = "return" /\ "is_disrupted" \notin DOMAIN co.value.items THEN "raise"
    ELSE IF co.kind = "return" /\ ~co.value.items["is_disrupted"] THEN "return"
    ELSE IF FirstMissing(context, DependentKeys) # "" THEN "raise"
    ELSE "dispatch"

\* What 'travel_disruption' does once `await self.execute_task(disruption_task)`
\* has handed back co: "raise" (the call raised, or a lookup fails), "return"
\* (falls off the end of the function) or "dispatch" (the dependent group is
\* built and gathered).  The contexts considered hold all of DependentKeys or
\* lack the first of them, so no dependent task is built before a KeyError.
\*   disruption = await self.execute_task(disruption_task)
\*   if disruption['is_disrupted']: ...
GateDecision(co, context) ==
    IF co.kind = "raise" THEN "raise"
    ELSE IF "is_disrupted" \notin DOMAIN co.value.items THEN "raise"
    ELSE IF ~co.value.items["is_disrupted"] THEN "return"
    ELSE IF FirstMissing(context, DependentKeys) # "" THEN "raise"
    ELSE "dispatch"

\* what orchestrate_routine hands its caller when it ends at the gate
GateOutcome(co, context) ==
    IF co.kind = "raise" THEN Raise(co.exc)
    ELSE IF "is_disrupted" \notin DOMAIN co.value.items
         THEN Raise(KeyError("is_disrupted"))
    ELSE IF ~co.value.items["is_disrupted"] THEN Return(None)
    ELSE Raise(KeyError(FirstMissing(context, DependentKeys)))

\* return {'status': 'completed', 'results': results}
MorningResult(results) ==
    Return(Dict([status |-> "completed", results |-> results]))

\* the aggregate built from the reroute result alone
TravelResultRerouteOnly(results) ==
    Return(Dict([status |-> "handled", new_route |-> results[1]]))

\* return {'status': 'handled', 'new_route': results[0], 'notifications': results[1]}
TravelResult(results) ==
    Return(Dict([status |-> "handled", new_route |-> results[1],
                 notifications |-> results[2]]))

\* a gather whose result list is in the reverse of the order of its arguments
GatherChildDoneReversed(outer, outs, mine) ==
    IF outer.kind # "none" THEN outer
    ELSE IF mine.kind = "raise" THEN Raise(mine.exc)
    ELSE IF \A i \in DOMAIN outs : outs[i].kind # "none"
         THEN Return([i \in DOMAIN outs |-> outs[Len(outs) + 1 - i].value])
    ELSE outer

\* asyncio.gather's done-callback for one child, return_exceptions=False:
\* outer is the gather future, outs the outcomes of all children (this one
\* included), mine the outcome of the child that just finished.
GatherChildDone(outer, outs, mine) ==
    IF outer.kind # "none" THEN outer
    ELSE IF mine.kind = "raise" THEN Raise(mine.exc)
    ELSE IF \A i \in DOMAIN outs : outs[i].kind # "none"
         THEN Return([i \in DOMAIN outs |-> outs[i].value])
    ELSE outer

\* the done-callbacks of the children that ended in their first run, in order
RECURSIVE GatherFirstRun(_, _, _)
GatherFirstRun(outer, outs, i) ==
    IF i > Len(outs) THEN outer
    ELSE GatherFirstRun(
            IF outs[i].kind = "none" THEN outer
            ELSE GatherChildDone(outer, outs, outs[i]),
            outs, i + 1)

----------------------------------------------------------------------------
(* State *)

Range(f) == { f[i] : i \in DOMAIN f }

\* a fresh orchestrate_routine coroutine
NewRoutine(name, context) ==
    [name |-> name, context |-> context, pc |-> "done", tasks |-> <<>>,
     gate |-> 0, children |-> <<>>, outer |-> NoOutcome, out |-> NoOutcome]

\* the tasks a routine passes to asyncio.gather
GroupTasks(R) ==
    IF R.name = "travel_disruption" THEN Tail(R.tasks) ELSE R.tasks

\* the tasks the application itself created (a routine's tasks are its locals)
CallerTasks ==
    { t \in DOMAIN tasks : \A r \in DOMAIN routines : t \notin Range(routines[r].tasks) }

\* execute_task calls that the routines in flight will still make
AtGate == { r \in DOMAIN routines : routines[r].pc = "gate" }
Scheduled == { r \in DOMAIN routines : routines[r].pc = "scheduled" }
ReservedCalls ==
    2 * Cardinality(AtGate)
    + 4 * Cardinality({ r \in Scheduled : routines[r].name = "morning_routine" })
    + 2 * Cardinality({ r \in Scheduled : routines[r].name = "travel_disruption" })
FreeCalls == MaxRoutineCalls - Len(calls) - ReservedCalls

\* the execute_task calls the application itself made
CallerCalls == { c \in DOMAIN calls : calls[c].routine = 0 }

\* SIFISOInferenceEngine.__init__
EngineNew ==
    /\ model_cache = <<>>
    /\ result_cache = <<>>
    /\ inference_queue = <<>>
    /\ sessions = <<>>
    /\ loads = <<>>
    /\ requests = <<>>
    /\ runs = <<>>
    /\ overlapped = FALSE

Init ==
    /\ agents \in StartupRegistries
    /\ tasks = <<>>
    /\ calls = <<>>
    /\ invocations = <<>>
    /\ routines = <<>>
    /\ EngineNew

----------------------------------------------------------------------------
(* Operations of the application *)

\* register_agent that keeps the binding a name already has (first writer wins)
RegisterAgentFirstWins(agent_type, agent_instance) ==
    /\ agents' = [k \in DOMAIN agents \cup {agent_type} |->
                    IF k \in DOMAIN agents THEN agents[k] ELSE agent_instance]
    /\ UNCHANGED <<tasks, calls, invocations, routines, engine>>

\* AgentOrchestrator.register_agent: self.agents[agent_type] = agent_instance
RegisterAgent(agent_type, agent_instance) ==
    /\ agents' = [k \in DOMAIN agents \cup {agent_type} |->
                    IF k = agent_type THEN agent_instance ELSE agents[k]]
    /\ UNCHANGED <<tasks, calls, invocations, routines, engine>>

\* task = AgentTask(task_type, {'action': 'run'}, priority)
NewTask(task_type, priority) ==
    /\ routines = <<>>
    /\ Cardinality(CallerTasks) < MaxCallerTasks
    /\ tasks' = Append(tasks, AgentTask(task_type, Dict([action |-> "run"]), priority))
    /\ UNCHANGED <<agents, calls, invocations, routines, engine>>

\* The application calls execute_task(task) on one of its tasks, whatever the
\* task's status: the coroutine runs to `await agent.process(...)` or raises.
ExecuteTask(t) ==
    /\ t \in CallerTasks
    /\ Cardinality(CallerCalls) < MaxCallerCalls
    /\ calls' = Append(calls, StartCall(agents, tasks, t, 0))
    /\ tasks' = [tasks EXCEPT ![t] = StartTask(agents, @)]
    /\ invocations' = invocations \o StartInvocations(agents, tasks, t, Len(calls) + 1)
    /\ UNCHANGED <<agents, routines, engine>>

----------------------------------------------------------------------------
(* Steps of the coroutines *)

\* The rest of 'travel_disruption' once the gate's execute_task handed back
\* co: rs is the routine table, tk the task table, both as that call left them.
AfterGate(rs, r, co, tk) ==
    LET R == rs[r] IN
    IF GateDecision(co, R.context) = "dispatch"
    THEN /\ tasks' = tk \o <<RerouteTask(R.context), NotifyTask(R.context)>>
         /\ routines' = [rs EXCEPT ![r].pc = "scheduled",
                                   ![r].tasks = @ \o <<Len(tk) + 1, Len(tk) + 2>>]
    ELSE /\ tasks' = tk
         /\ routines' = [rs EXCEPT ![r].pc = "done",
                                   ![r].out = GateOutcome(co, R.context)]

\* The application calls orchestrate_routine(routine_name, context): the
\* coroutine runs to its first suspension or to its end.
OrchestrateRoutine(name, context) ==
    /\ CallerTasks = {}
    /\ Len(routines) < MaxRoutines
    /\ UNCHANGED <<agents, engine>>
    /\ LET r == Len(routines) + 1
           R == NewRoutine(name, context)
       IN CASE name = "morning_routine" ->
                 LET new == MorningTasks(context) IN
                 /\ FreeCalls >= Len(new)
                 /\ tasks' = tasks \o new
                 /\ routines' = Append(routines,
                        [R EXCEPT !.pc = "scheduled",
                                  !.tasks = [i \in 1..Len(new) |-> Len(tasks) + i]])
                 /\ UNCHANGED <<calls, invocations>>
            [] name = "travel_disruption" /\ "trip_data" \notin DOMAIN context ->
                 /\ routines' = Append(routines,
                        [R EXCEPT !.out = Raise(KeyError("trip_data"))])
                 /\ UNCHANGED <<tasks, calls, invocations>>
            [] name = "travel_disruption" /\ "trip_data" \in DOMAIN context ->
                 LET t == Len(tasks) + 1
                     c == Len(calls) + 1
                     tk0 == Append(tasks, DisruptionTask(context))
                     call == StartCall(agents, tk0, t, r)
                     tk1 == [tk0 EXCEPT ![t] = StartTask(agents, @)]
                     rs == Append(routines,
                             [R EXCEPT !.pc = "gate", !.tasks = <<t>>, !.gate = c])
                 IN /\ FreeCalls >= 3
                    /\ calls' = Append(calls, call)
                    /\ invocations' = invocations \o StartInvocations(agents, tk0, t, c)
                    /\ IF call.out.kind = "none"
                       THEN tasks' = tk1 /\ routines' = rs
                       ELSE AfterGate(rs, r, call.out, tk1)
            [] OTHER ->
                 /\ routines' = Append(routines, [R EXCEPT !.out = Return(None)])
                 /\ UNCHANGED <<tasks, calls, invocations>>

\* the agent.process calls made by the first runs of the gathered children
RECURSIVE GroupInvocations(_, _, _, _)
GroupInvocations(ag, tk, group, c) ==
    IF group = <<>> THEN <<>>
    ELSE StartInvocations(ag, tk, Head(group), c)
         \o GroupInvocations(ag, tk, Tail(group), c + 1)

\* The event loop runs the children that asyncio.gather scheduled: each
\* execute_task coroutine runs to its first suspension, one after the other
\* with nothing in between (they were queued back to back), then the
\* done-callbacks of those that already ended.
GatherStart(r) ==
    /\ r \in Scheduled
    /\ LET group == GroupTasks(routines[r])
           new == [i \in 1..Len(group) |-> StartCall(agents, tasks, group[i], r)]
       IN /\ calls' = calls \o new
          /\ tasks' = [t \in DOMAIN tasks |->
                         IF t \in Range(group) THEN StartTask(agents, tasks[t])
                         ELSE tasks[t]]
          /\ invocations' =
                invocations \o GroupInvocations(agents, tasks, group, Len(calls) + 1)
          /\ routines' = [routines EXCEPT
                ![r].pc = "gather",
                ![r].children = [i \in 1..Len(group) |-> Len(calls) + i],
                ![r].outer = GatherFirstRun(NoOutcome,
                                 [i \in 1..Len(group) |-> new[i].out], 1)]
    /\ UNCHANGED <<agents, engine>>

\* the outcomes of the gather children of routine R, given the calls cl
ChildOuts(R, cl) == [i \in DOMAIN R.children |-> cl[R.children[i]].out]

\* the children still running are cancelled when one of them fails: the
\* CancelledError thrown into `await agent.process(...)` is no Exception, so
\* execute_task ends without marking the task
GatherCancelsSiblings(cl, R, c) ==
    [d \in DOMAIN cl |->
        IF /\ cl[c].out.kind = "raise"
           /\ d \in Range(R.children)
           /\ cl[d].out.kind = "none"
        THEN [cl[d] EXCEPT !.out = Raise([kind |-> "CancelledError", msg |-> <<>>])]
        ELSE cl[d]]

\* What asyncio.gather does to the other children when one of them is done:
\* nothing (with return_exceptions=False the first exception goes to the
\* awaiter, the other children are not cancelled and keep running).
GatherSiblings(cl, R, c) == cl

\* agent.process of call c ends with ao; execute_task resumes, marks the task
\* and ends; whoever awaits it directly (the gate of 'travel_disruption')
\* runs on; a gather child's done-callback updates the gather future.
AgentDone(c, ao) ==
    /\ Awaiting(c)
    /\ LET t == calls[c].task
           r == calls[c].routine
           co == IF ao.kind = "return" THEN OnAgentReturn(ao.value)
                 ELSE OnAgentRaise(ao.exc)
           tk == [tasks EXCEPT ![t] =
                    IF ao.kind = "return" THEN MarkCompleted(@, ao.value)
                    ELSE MarkFailed(@, ao.exc)]
           cl == [calls EXCEPT ![c].agentOut = ao, ![c].out = co]
       IN IF r = 0
          THEN calls' = cl /\ tasks' = tk /\ routines' = routines
          ELSE IF routines[r].gate = c
          THEN calls' = cl /\ AfterGate(routines, r, co, tk)
          ELSE /\ calls' = GatherSiblings(cl, routines[r], c)
               /\ tasks' = tk
               /\ routines' = [routines EXCEPT ![r].outer =
                                 GatherChildDone(@, ChildOuts(routines[r], cl), co)]
    /\ UNCHANGED <<agents, invocations, engine>>

\* result = await agent.process(task.parameters) returns v
AgentReturn(c, v) == AgentDone(c, Return(v))

\* await agent.process(task.parameters) raises e
AgentRaise(c, e) == AgentDone(c, Raise(e))

\* The gather future is done: orchestrate_routine resumes and ends.
GatherResume(r) ==
    /\ r \in DOMAIN routines
    /\ routines[r].pc = "gather"
    /\ routines[r].outer.kind # "none"
    /\ routines' = [routines EXCEPT
          ![r].pc = "done",
          ![r].out = IF routines[r].outer.kind = "raise"
                     THEN Raise(routines[r].outer.exc)
                     ELSE IF routines[r].name = "morning_routine"
                     THEN MorningResult(routines[r].outer.value)
                     ELSE TravelResult(routines[r].outer.value)]
    /\ UNCHANGED <<agents, tasks, calls, invocations, engine>>

----------------------------------------------------------------------------

Next ==
    \/ \E k \in LaterTypes, a \in LaterInstances : RegisterAgent(k, a)
    \/ \E tt \in CallerTaskTypes, p \in CallerPriorities : NewTask(tt, p)
    \/ \E t \in DOMAIN tasks : ExecuteTask(t)
    \/ \E n \in RoutineNames, ctx \in Contexts : OrchestrateRoutine(n, ctx)
    \/ \E r \in DOMAIN routines : GatherStart(r)
    \/ \E c \in DOMAIN calls : \E v \in AgentValues(tasks[calls[c].task]) : AgentReturn(c, v)
    \/ \E c \in DOMAIN calls : \E e \in AgentExceptions(tasks[calls[c].task]) : AgentRaise(c, e)
    \/ \E r \in DOMAIN routines : GatherResume(r)

Spec == Init /\ [][Next]_vars

\* The agents' calls end and the event loop keeps running its ready callbacks.
AgentStep ==
    \E c \in DOMAIN calls :
        \/ \E v \in AgentValues(tasks[calls[c].task]) : AgentReturn(c, v)
        \/ \E e \in AgentExceptions(tasks[calls[c].task]) : AgentRaise(c, e)
LoopStep == \E r \in DOMAIN routines : GatherStart(r) \/ GatherResume(r)

FairSpec == Spec /\ WF_vars(AgentStep) /\ WF_vars(LoopStep)

----------------------------------------------------------------------------
(* SIFISOInferenceEngine: bounds and inputs *)

\* load_model calls the callers make
MaxLoads == 2
\* run_inference calls the callers make
MaxRequests == 2

\* the threads of the callers; a thread makes one engine call at a time
Threads == {"t1", "t2"}

\* model_id values handed to load_model and run_inference
ModelIds == {"m1", "sifiso_llm"}

\* model_path values handed to load_model: two model files, and a path at
\* which there is no model file
GoodPaths == {"m1.onnx", "llm.onnx"}
BadPaths == {"missing.onnx"}

\* the (model_path, model_id) pairs handed to load_model
LoadArgs ==
    { <<"m1.onnx", "m1">>, <<"missing.onnx", "m1">>, <<"llm.onnx", "sifiso_llm">> }

\* An element of an input array: the digits numpy prints for it, and the
\* digits beyond the printed precision.
Element(printed, beyond) == [printed |-> printed, beyond |-> beyond]

\* the (model_id, inputs, priority) triples handed to run_inference, inputs
\* being the one array of the dict: a payload at one priority, and at another
\* priority a payload that differs from it beyond the printed precision only
RequestArgs ==
    { <<"m1", << Element("0.12345678", "1") >>, LOW>>,
      <<"m1", << Element("0.12345678", "2") >>, CRITICAL>> }

\* prompt values handed to run_llm_inference
Prompts == {"hello"}

\* _tokenize(text): np.random.randint(0, 50000, size=(1, 50)), whatever the
\* text: the arrays of token ids that may be drawn (integers print in full)
Tokenize(text) ==
    { << Element("17", "") >>,
      << Element("4711", "") >> }

\* priority: int = 5, the priority of a run_inference call that names none
DefaultPriority == 5

\* model_id = 'sifiso_llm'
LlmModelId == "sifiso_llm"

\* what session.run may hand back: the list of outputs, with the wall-clock
\* time the call took
SessionOutcomes ==
    { [outputs |-> <<"logitsA">>, time |-> 1],
      [outputs |-> <<"logitsB">>, time |-> 2] }

\* what session.run may raise
SessionExceptions == { [kind |-> "RuntimeError", msg |-> <<"accelerator fault">>] }

----------------------------------------------------------------------------
(* SIFISOInferenceEngine: the methods piece by piece *)

\* [o.name for o in session.get_outputs()] of the model file at path
OutputNames(path) == <<"logits">>

\* [i.name for i in session.get_inputs()] of the model file at path
InputNames(path) == <<"input_ids">>

\* ort.InferenceSession(model_path, ...) of a path with no model file raises
LoadError(path) == [kind |-> "NoSuchFile", msg |-> <<path>>]

\* the entry load_model stores for the session it created (the s-th created)
ModelEntry(s, path) ==
    [session |-> s, input_names |-> InputNames(path),
     output_names |-> OutputNames(path)]

\* the test replaced by True: every load_model call creates a session
LoadAlways(mc, model_id) == TRUE

\* if model_id not in self.model_cache
LoadNeeded(mc, model_id) == model_id \notin DOMAIN mc

\* d[key] = value
Put(d, key, value) ==
    [k \in DOMAIN d \cup {key} |-> IF k = key THEN value ELSE d[k]]

\* str(inputs): numpy prints each element to its printed precision
StrOfInputs(inputs) ==
    <<"{'x': array([">> \o [i \in DOMAIN inputs |-> inputs[i].printed] \o <<"])}">>

\* hash(text): an integer that equal texts share; the texts of the model are
\* few and no two of them collide, so the integer stands for its text
Hash(text) == [hash |-> text]

\* cache_key = f"{model_id}_{hash(str(inputs))}"
CacheKey(model_id, inputs) == <<model_id, "_", Hash(StrOfInputs(inputs))>>

\* the cache never hit: every call goes to the model
CacheNeverHit(rc, key) == FALSE

\* if cache_key in self.result_cache
CacheHit(rc, key) == key \in DOMAIN rc

\* f"Model {model_id} not loaded"
ModelNotLoadedMsg(model_id) == <<"Model ", model_id, " not loaded">>

\* the KeyError of self.model_cache[model_id], were the test before it absent
ModelKeyError(model_id) == [kind |-> "KeyError", msg |-> <<model_id>>]

\* raise ValueError(f"Model {model_id} not loaded")
ModelNotLoadedError(model_id) ==
    [kind |-> "ValueError", msg |-> ModelNotLoadedMsg(model_id)]

\* result = {name: output for name, output in zip(output_names, outputs)}
\* result['_inference_time'] = inference_time
BuildResult(output_names, o) ==
    Dict([n \in Range(output_names) \cup {"_inference_time"} |->
            IF n = "_inference_time" THEN o.time
            ELSE o.outputs[CHOOSE i \in DOMAIN output_names : output_names[i] = n]])

\* run_inference without the test of line 124: a request for a model that is
\* not loaded is served by a model that is
StartRequestAnyModel(mc, rc, model_id, inputs, priority) ==
    LET key == CacheKey(model_id, inputs)
        R == [model_id |-> model_id, inputs |-> inputs, priority |-> priority,
              key |-> key, pc |-> "done", model |-> None, out |-> NoOutcome,
              llm |-> FALSE]
    IN IF CacheHit(rc, key) THEN [R EXCEPT !.out = Return(rc[key])]
       ELSE IF DOMAIN mc = {}
            THEN [R EXCEPT !.out = Raise(ModelNotLoadedError(model_id))]
       ELSE [R EXCEPT !.pc = "pending",
                      !.model = mc[IF model_id \in DOMAIN mc THEN model_id
                                   ELSE CHOOSE m \in DOMAIN mc : TRUE]]

\* A run_inference call up to line 128: it returned the cached result, raised
\* for want of the model, or holds the model entry and is about to call
\* session.run.
StartRequest(mc, rc, model_id, inputs, priority) ==
    LET key == CacheKey(model_id, inputs)
        R == [model_id |-> model_id, inputs |-> inputs, priority |-> priority,
              key |-> key, pc |-> "done", model |-> None, out |-> NoOutcome,
              llm |-> FALSE]
    IN IF CacheHit(rc, key) THEN [R EXCEPT !.out = Return(rc[key])]
       ELSE IF model_id \notin DOMAIN mc
            THEN [R EXCEPT !.out = Raise(ModelNotLoadedError(model_id))]
       ELSE [R EXCEPT !.pc = "pending", !.model = mc[model_id]]

\* the engine calls that have begun and not ended
LoadsInFlight == { l \in DOMAIN loads : loads[l].pc = "creating" }
RequestsInFlight == { q \in DOMAIN requests : requests[q].pc \in {"pending", "running"} }
InFlight == LoadsInFlight # {} \/ RequestsInFlight # {}

\* a thread of the callers is free to make a call
ThreadFree ==
    Cardinality(LoadsInFlight) + Cardinality(RequestsInFlight) < Cardinality(Threads)

----------------------------------------------------------------------------
(* SIFISOInferenceEngine: operations of the callers and steps of the calls *)

EngineInit ==
    /\ agents = <<>>
    /\ tasks = <<>>
    /\ calls = <<>>
    /\ invocations = <<>>
    /\ routines = <<>>
    /\ EngineNew

\* A caller calls load_model(model_path, model_id): nothing to do, or the
\* creation of the inference session begins.
LoadModel(model_path, model_id) ==
    /\ Len(loads) < MaxLoads
    /\ ThreadFree
    /\ loads' = Append(loads,
          IF LoadNeeded(model_cache, model_id)
          THEN [path |-> model_path, model_id |-> model_id, pc |-> "creating",
                out |-> NoOutcome]
          ELSE [path |-> model_path, model_id |-> model_id, pc |-> "done",
                out |-> Return(None)])
    /\ overlapped' = (overlapped \/ InFlight)
    /\ UNCHANGED <<model_cache, result_cache, inference_queue, sessions, requests, runs>>
    /\ UNCHANGED orchestrator

\* ort.InferenceSession(...) of load l returns the session: load_model stores
\* the entry and ends.
SessionCreated(l) ==
    /\ loads[l].pc = "creating"
    /\ loads[l].path \in GoodPaths
    /\ sessions' = Append(sessions,
          [path |-> loads[l].path, model_id |-> loads[l].model_id])
    /\ model_cache' = Put(model_cache, loads[l].model_id,
                          ModelEntry(Len(sessions) + 1, loads[l].path))
    /\ loads' = [loads EXCEPT ![l].pc = "done", ![l].out = Return(None)]
    /\ UNCHANGED <<result_cache, inference_queue, requests, runs, overlapped>>
    /\ UNCHANGED orchestrator

\* ort.InferenceSession(...) of load l raises: load_model ends with it.
SessionCreateFails(l) ==
    /\ loads[l].pc = "creating"
    /\ loads[l].path \in BadPaths
    /\ loads' = [loads EXCEPT ![l].pc = "done",
                              ![l].out = Raise(LoadError(loads[l].path))]
    /\ UNCHANGED <<model_cache, result_cache, inference_queue, sessions, requests,
                   runs, overlapped>>
    /\ UNCHANGED orchestrator

\* A caller calls run_inference(model_id, inputs, priority): lines 119-128.
RunInference(model_id, inputs, priority) ==
    /\ Len(requests) < MaxRequests
    /\ ThreadFree
    /\ requests' = Append(requests,
          StartRequest(model_cache, result_cache, model_id, inputs, priority))
    /\ overlapped' = (overlapped \/ InFlight)
    /\ UNCHANGED <<model_cache, result_cache, inference_queue, sessions, loads, runs>>
    /\ UNCHANGED orchestrator

\* _decode(logits)
Decode(logits) == "AI-generated response based on your prompt"

\* What run_llm_inference hands its caller, given what its run_inference call
\* handed back: response = self._decode(outputs['logits'])
LlmResponse(out) ==
    IF out.kind = "raise" THEN out
    ELSE IF "logits" \notin DOMAIN out.value.items THEN Raise(KeyError("logits"))
    ELSE Return(Decode(out.value.items["logits"]))

\* A caller calls run_llm_inference(prompt, max_tokens): the prompt is
\* tokenized and run_inference('sifiso_llm', {'input_ids': input_ids}) is
\* called, with the default priority; lines 145-152, up to line 128.
RunLlmInference(prompt, input_ids) ==
    /\ Len(requests) < MaxRequests
    /\ ThreadFree
    /\ requests' = Append(requests,
          [StartRequest(model_cache, result_cache, LlmModelId, input_ids,
                        DefaultPriority) EXCEPT !.llm = TRUE])
    /\ overlapped' = (overlapped \/ InFlight)
    /\ UNCHANGED <<model_cache, result_cache, inference_queue, sessions, loads, runs>>
    /\ UNCHANGED orchestrator

\* a dispatcher that holds a request back while a more urgent one, or an
\* earlier one as urgent, is waiting for the resource
SessionRunByPriority(q) ==
    /\ requests[q].pc = "pending"
    /\ \A p \in DOMAIN requests :
          requests[p].pc = "pending" /\ p # q
          => \/ requests[q].priority < requests[p].priority
             \/ requests[q].priority = requests[p].priority /\ q < p
    /\ runs' = Append(runs,
          [request |-> q, session |-> requests[q].model.session,
           inputs |-> requests[q].inputs, submitted |-> Len(requests)])
    /\ requests' = [requests EXCEPT ![q].pc = "running"]
    /\ UNCHANGED <<model_cache, result_cache, inference_queue, sessions, loads,
                   overlapped>>
    /\ UNCHANGED orchestrator

\* Request q calls session.run(model['output_names'], inputs): line 132.
\* The invocation records how many requests had been made by then.
SessionRun(q) ==
    /\ requests[q].pc = "pending"
    /\ runs' = Append(runs,
          [request |-> q, session |-> requests[q].model.session,
           inputs |-> requests[q].inputs, submitted |-> Len(requests)])
    /\ requests' = [requests EXCEPT ![q].pc = "running"]
    /\ UNCHANGED <<model_cache, result_cache, inference_queue, sessions, loads,
                   overlapped>>
    /\ UNCHANGED orchestrator

\* session.run of request q returns o: lines 133-141.
SessionReturn(q, o) ==
    /\ requests[q].pc = "running"
    /\ LET result == BuildResult(requests[q].model.output_names, o) IN
       /\ result_cache' = Put(result_cache, requests[q].key, result)
       /\ requests' = [requests EXCEPT ![q].pc = "done", ![q].out = Return(result)]
    /\ UNCHANGED <<model_cache, inference_queue, sessions, loads, runs, overlapped>>
    /\ UNCHANGED orchestrator

\* the failure stored in the result cache
SessionRaiseCached(q, e) ==
    /\ requests[q].pc = "running"
    /\ requests' = [requests EXCEPT ![q].pc = "done", ![q].out = Raise(e)]
    /\ result_cache' = Put(result_cache, requests[q].key, Dict([error |-> Str(e)]))
    /\ UNCHANGED <<model_cache, inference_queue, sessions, loads, runs, overlapped>>
    /\ UNCHANGED orchestrator

\* session.run of request q raises e: nothing in run_inference catches it.
SessionRaise(q, e) ==
    /\ requests[q].pc = "running"
    /\ requests' = [requests EXCEPT ![q].pc = "done", ![q].out = Raise(e)]
    /\ UNCHANGED <<model_cache, result_cache, inference_queue, sessions, loads,
                   runs, overlapped>>
    /\ UNCHANGED orchestrator

EngineNext ==
    \/ \E a \in LoadArgs : LoadModel(a[1], a[2])
    \/ \E l \in DOMAIN loads : SessionCreated(l)
    \/ \E l \in DOMAIN loads : SessionCreateFails(l)
    \/ \E a \in RequestArgs : RunInference(a[1], a[2], a[3])
    \/ \E prompt \in Prompts : \E input_ids \in Tokenize(prompt) :
          RunLlmInference(prompt, input_ids)
    \/ \E q \in DOMAIN requests : SessionRun(q)
    \/ \E q \in DOMAIN requests, o \in SessionOutcomes : SessionReturn(q, o)
    \/ \E q \in DOMAIN requests, e \in SessionExceptions : SessionRaise(q, e)

EngineSpec == EngineInit /\ [][EngineNext]_vars

----------------------------------------------------------------------------
(* Vocabulary of the properties *)

\* the text before the first "." of tt, said without computing the split:
\* the longest dot-free prefix
CapabilityOf(tt) ==
    LET n == CHOOSE k \in 0..Len(tt) :
                /\ \A i \in 1..k : tt[i] # Dot
                /\ k = Len(tt) \/ tt[k + 1] = Dot
    IN SubSeq(tt, 1, n)

NewCalls == DOMAIN calls' \ DOMAIN calls
NewInvocations == DOMAIN invocations' \ DOMAIN invocations
InvocationsFor(t) == { i \in DOMAIN invocations : invocations[i].task = t }

IsUnknownCapability(out, C) ==
    /\ out.kind = "raise"
    /\ out.exc.kind = "ValueError"
    /\ out.exc.msg = <<"No agent registered for: ">> \o C

Travel == { r \in DOMAIN routines : routines[r].name = "travel_disruption" }
HasGate(r) == r \in Travel /\ routines[r].gate # 0
GateCall(r) == calls[routines[r].gate]
GateFailed(r) == HasGate(r) /\ GateCall(r).out.kind = "raise"
GateAgentRaised(r) == HasGate(r) /\ GateCall(r).agentOut.kind = "raise"
GateSucceeded(r) == HasGate(r) /\ GateCall(r).out.kind = "return"
Done(r) == routines[r].pc = "done"
DependentTypes ==
    { <<"travel", Dot, "route_optimizer">>, <<"communication", Dot, "contact_notifier">> }
CallsOf(r) == { c \in DOMAIN calls : calls[c].routine = r }
IsChild(c) ==
    /\ c \in DOMAIN calls
    /\ calls[c].routine # 0
    /\ c \in Range(routines[calls[c].routine].children)
Dispatched(c) == c \in DOMAIN calls /\ calls[c].agent # ""

----------------------------------------------------------------------------
(* C1: execute_task invokes process on exactly the agent bound, when the   *)
(* call is made, to the text before the first "." of the task's kind, and  *)
(* on no other; with no agent bound it raises the unknown-capability       *)
(* ValueError and invokes nothing.                                         *)

C1_Step ==
    /\ \A i \in DOMAIN invocations : invocations'[i] = invocations[i]
    /\ \A i \in NewInvocations : invocations'[i].call \in NewCalls
    /\ \A c \in NewCalls :
        LET t == calls'[c].task
            C == CapabilityOf(tasks'[t].task_type)
            mine == { i \in NewInvocations : invocations'[i].call = c }
        IN IF C \in DOMAIN agents
           THEN /\ Cardinality(mine) = 1
                /\ \A i \in mine : /\ invocations'[i].agent = agents[C]
                                   /\ invocations'[i].task = t
                                   /\ invocations'[i].parameters = tasks'[t].parameters
                /\ calls'[c].out.kind = "none"
           ELSE /\ mine = {}
                /\ IsUnknownCapability(calls'[c].out, C)

C1_ResolvesBoundAgent == [][C1_Step]_vars

\* a call failed for want of an agent, the agent was registered, and a later
\* call for a kind with several dots reached it
C1_Witness ==
    \E c, d \in DOMAIN calls :
        /\ c < d
        /\ calls[c].task = calls[d].task
        /\ Len(tasks[calls[c].task].task_type) > 3
        /\ calls[c].out.kind = "raise" /\ calls[c].agent = ""
        /\ \E i \in DOMAIN invocations :
              invocations[i].call = d /\ invocations[i].agent \in LaterInstances

----------------------------------------------------------------------------
(* C2: every change of a task's status is pending->running,                *)
(* running->completed or running->failed; tasks start pending; a completed *)
(* or failed task never changes status again.                              *)

LegalTransitions ==
    { <<"pending", "running">>, <<"running", "completed">>, <<"running", "failed">> }

\* a task built and dispatched in one uninterrupted run of a routine is
\* first seen running: it was pending in between
C2_Step ==
    /\ \A t \in DOMAIN tasks' \ DOMAIN tasks :
          \/ tasks'[t].status = "pending"
          \/ /\ tasks'[t].status = "running"
             /\ \E c \in NewCalls : calls'[c].task = t
    /\ \A t \in DOMAIN tasks :
          tasks'[t].status # tasks[t].status
              => <<tasks[t].status, tasks'[t].status>> \in LegalTransitions

C2_StatusLifecycle == [][C2_Step]_vars

----------------------------------------------------------------------------
(* C3: no task is dispatched twice: for every task, process is invoked at  *)
(* most once, however often execute_task is called with it.                *)

C3_AtMostOneDispatch ==
    \A t \in DOMAIN tasks : Cardinality(InvocationsFor(t)) <= 1

----------------------------------------------------------------------------
(* C4: a task's result is written exactly once, with the transition to     *)
(* completed or failed: a pending or running task has result None, and the *)
(* result of a completed or failed task is never rewritten.                *)

C4_Step ==
    /\ \A t \in DOMAIN tasks' :
          tasks'[t].status \in {"pending", "running"} => tasks'[t].result = None
    /\ \A t \in DOMAIN tasks :
          tasks[t].status \in Terminal => tasks'[t].result = tasks[t].result

C4_ResultWrittenOnce == [][C4_Step]_vars

----------------------------------------------------------------------------
(* C5: when the agent's process call raises, execute_task marks the task   *)
(* failed, stores the failure in its result and raises the same failure to *)
(* its caller; it never returns normally after an agent failure.           *)

C5_Step ==
    \A c \in DOMAIN calls :
        calls[c].agentOut.kind = "none" /\ calls'[c].agentOut.kind = "raise"
        => /\ tasks'[calls[c].task].status = "failed"
           /\ tasks'[calls[c].task].result = Dict([error |-> calls'[c].agentOut.exc.msg])
           /\ calls'[c].out.kind = "raise"
           /\ calls'[c].out.exc = calls'[c].agentOut.exc

C5_Always ==
    \A c \in DOMAIN calls' :
        calls'[c].agentOut.kind = "raise" => calls'[c].out.kind = "raise"

C5_FailurePropagates == [][C5_Step /\ C5_Always]_vars

\* an agent raised and the task was marked failed
C5_Witness ==
    \E c \in DOMAIN calls :
        /\ calls[c].agentOut.kind = "raise"
        /\ tasks[calls[c].task].status = "failed"

----------------------------------------------------------------------------
(* C6: if the gate task of 'travel_disruption' fails, no task of the       *)
(* dependent group is created or dispatched: the routine made no           *)
(* execute_task call and no process call but the gate's.                   *)

C6_GateShortCircuit ==
    \A r \in DOMAIN routines :
        GateFailed(r)
        => /\ routines[r].tasks = <<GateCall(r).task>>
           /\ routines[r].children = <<>>
           /\ CallsOf(r) = {routines[r].gate}
           /\ \A i \in DOMAIN invocations :
                 calls[invocations[i].call].routine = r
                     => invocations[i].call = routines[r].gate
           /\ \A t \in DOMAIN tasks :
                 tasks[t].task_type \in DependentTypes
                     => \E q \in DOMAIN routines : q # r /\ t \in Range(routines[q].tasks)

\* the gate's agent was invoked and raised, with a context that has every key
C6_Witness ==
    \E r \in DOMAIN routines :
        /\ GateFailed(r)
        /\ GateCall(r).agentOut.kind = "raise"
        /\ routines[r].context = FullContext
        /\ Done(r)

----------------------------------------------------------------------------
(* C7: when the gate task fails, orchestrate_routine returns (does not     *)
(* raise) an aggregate result whose status is "failed_at_gate", and the    *)
(* dependent group is never dispatched.  Stated for the plainest failure   *)
(* of a gate task, its agent raising.                                      *)

IsDictWith(v, key) == v.type = "dict" /\ key \in DOMAIN v.items

C7_FailedAtGateResult ==
    \A r \in DOMAIN routines :
        GateAgentRaised(r)
        => /\ Done(r)
           /\ routines[r].out.kind = "return"
           /\ IsDictWith(routines[r].out.value, "status")
           /\ routines[r].out.value.items["status"] = "failed_at_gate"
           /\ routines[r].children = <<>>

----------------------------------------------------------------------------
(* C8: whenever the gate task completes successfully, whatever value its   *)
(* agent returned, the dependent group is dispatched, and the aggregate    *)
(* result holds the dependent group's results merged with the gate's.      *)

Holds(v, x) == v.type = "dict" /\ \E k \in DOMAIN v.items : v.items[k] = x

C8_DependentsAlwaysDispatched ==
    \A r \in DOMAIN routines :
        GateSucceeded(r)
        => /\ Len(routines[r].tasks) = 3
           /\ Done(r) /\ routines[r].out.kind = "return"
              => /\ Len(routines[r].children) = 2
                 /\ \A i \in DOMAIN routines[r].children :
                       Holds(routines[r].out.value,
                             calls[routines[r].children[i]].out.value)
                 /\ Holds(routines[r].out.value, GateCall(r).out.value)

----------------------------------------------------------------------------
(* C9: when a member of an independent group fails, orchestrate_routine    *)
(* gives control back to its caller only once every member task is         *)
(* completed or failed, and it surfaces the failure.  Stated for the       *)
(* plainest failure of a member, its agent raising.                        *)

MemberFailed(r) ==
    \E i \in DOMAIN routines[r].children :
        calls[routines[r].children[i]].agentOut.kind = "raise"

C9_JoinBeforeReturn ==
    \A r \in DOMAIN routines :
        Done(r) /\ MemberFailed(r)
        => /\ routines[r].out.kind = "raise"
           /\ \A i \in DOMAIN GroupTasks(routines[r]) :
                 tasks[GroupTasks(routines[r])[i]].status \in Terminal

----------------------------------------------------------------------------
(* C10: a member's failure does not cancel its siblings: every member of   *)
(* an independent group that was dispatched (reached running) is in the    *)
(* end completed or failed by its own agent's outcome, given that agent    *)
(* calls end and the event loop keeps running.                             *)

EndedByOwnAgent(c) ==
    /\ calls[c].agentOut.kind # "none"
    /\ calls[c].out.kind = calls[c].agentOut.kind
    /\ tasks[calls[c].task].status =
          IF calls[c].agentOut.kind = "return" THEN "completed" ELSE "failed"

AllDispatchedMembersEnded ==
    \A c \in DOMAIN calls : IsChild(c) /\ Dispatched(c) => EndedByOwnAgent(c)

C10_SiblingsRunToTerminal == <>[]AllDispatchedMembersEnded

\* a member failed, orchestrate_routine has raised to its caller, and a
\* sibling dispatched with it is still running
C10_Witness ==
    \E r \in DOMAIN routines :
        /\ Done(r)
        /\ routines[r].out.kind = "raise"
        /\ \E i, j \in DOMAIN routines[r].children :
              /\ calls[routines[r].children[i]].agentOut.kind = "raise"
              /\ Awaiting(routines[r].children[j])
              /\ tasks[calls[routines[r].children[j]].task].status = "running"

----------------------------------------------------------------------------
(* C11: in 'travel_disruption', once the gate reported a disruption, the   *)
(* two dependent tasks are dispatched together: the step that starts the   *)
(* group puts every dispatched member in status running before any         *)
(* member's agent call has ended; and when both agents return, the routine *)
(* returns an aggregate that holds the reroute result and the notification *)
(* result.                                                                 *)

RerouteType == <<"travel", Dot, "route_optimizer">>
NotifyType == <<"communication", Dot, "contact_notifier">>

C11_Step ==
    \A r \in DOMAIN routines' :
        routines'[r].name = "travel_disruption" /\ routines'[r].children # <<>>
        => LET ch == routines'[r].children IN
           /\ Len(ch) = 2
           /\ tasks'[calls'[ch[1]].task].task_type = RerouteType
           /\ tasks'[calls'[ch[2]].task].task_type = NotifyType
           /\ (r \in DOMAIN routines /\ routines[r].children = <<>>)
              => \A i \in 1..2 :
                    /\ calls'[ch[i]].agentOut.kind = "none"
                    /\ calls'[ch[i]].agent # ""
                       => tasks'[calls'[ch[i]].task].status = "running"
           /\ \A i \in 1..2 :
                 calls'[ch[i]].agentOut.kind # "none"
                 => \A j \in 1..2 :
                       calls'[ch[j]].agent # ""
                       => tasks'[calls'[ch[j]].task].status # "pending"
           /\ ( /\ routines'[r].pc = "done"
                /\ \A i \in 1..2 : calls'[ch[i]].agentOut.kind = "return" )
              => /\ routines'[r].out.kind = "return"
                 /\ IsDictWith(routines'[r].out.value, "new_route")
                 /\ IsDictWith(routines'[r].out.value, "notifications")
                 /\ routines'[r].out.value.items["new_route"]
                        = calls'[ch[1]].agentOut.value
                 /\ routines'[r].out.value.items["notifications"]
                        = calls'[ch[2]].agentOut.value

C11_DependentsConcurrent == [][C11_Step]_vars

\* both dependent tasks are running at once, neither agent call has ended
C11_Witness ==
    \E r \in DOMAIN routines :
        /\ routines[r].name = "travel_disruption"
        /\ Len(routines[r].children) = 2
        /\ \A i \in 1..2 :
              /\ Awaiting(routines[r].children[i])
              /\ tasks[calls[routines[r].children[i]].task].status = "running"

\* the routine returned the aggregate after both dependent agents returned
C11_BothResultsReturned ==
    \E r \in DOMAIN routines :
        /\ routines[r].name = "travel_disruption"
        /\ Len(routines[r].children) = 2
        /\ routines[r].pc = "done"
        /\ routines[r].out.kind = "return"
        /\ \A i \in 1..2 : calls[routines[r].children[i]].agentOut.kind = "return"

----------------------------------------------------------------------------
(* C12: orchestrate_routine called with a name for which no routine is     *)
(* defined ends by raising an error (the unknown-routine error), and       *)
(* creates and dispatches no task.                                         *)

DefinedRoutines == {"morning_routine", "travel_disruption"}

C12_UnknownRoutineFails ==
    \A r \in DOMAIN routines :
        routines[r].name \notin DefinedRoutines
        => /\ routines[r].pc = "done"
           /\ routines[r].out.kind = "raise"
           /\ routines[r].tasks = <<>>
           /\ CallsOf(r) = {}

----------------------------------------------------------------------------
(* C13: when an agent's process call raises, the result stored in the task *)
(* is a structured description of the failure that carries the error's     *)
(* kind as well as its message.                                            *)

C13_Step ==
    \A c \in DOMAIN calls :
        calls[c].agentOut.kind = "none" /\ calls'[c].agentOut.kind = "raise"
        => LET e == calls'[c].agentOut.exc
               result == tasks'[calls[c].task].result
           IN /\ result.type = "dict"
              /\ DOMAIN result.items # {}
              /\ Holds(result, e.msg)
              /\ Holds(result, e.kind)

C13_StructuredFailure == [][C13_Step]_vars

----------------------------------------------------------------------------
(* C14: when a member of an independent group fails, what the routine      *)
(* hands back to its caller reports every member's outcome together with   *)
(* the first error: it is an aggregate with one entry per member, in which *)
(* the results of the members that succeeded are kept, and not the bare    *)
(* failure of one member.                                                  *)

\* the members of r's group whose agent had returned
Succeeded(r) ==
    { i \in DOMAIN routines[r].children :
        calls[routines[r].children[i]].agentOut.kind = "return" }

C14_PartialResultsReported ==
    \A r \in DOMAIN routines :
        Done(r) /\ MemberFailed(r)
        => /\ routines[r].out.kind = "return"
           /\ IsDictWith(routines[r].out.value, "results")
           /\ LET results == routines[r].out.value.items["results"] IN
              /\ Len(results) = Len(routines[r].children)
              /\ \A i \in Succeeded(r) :
                    results[i] = calls[routines[r].children[i]].agentOut.value

----------------------------------------------------------------------------
(* C15: register_agent(name, agent) can always be performed, binds name to *)
(* agent whether or not name was bound (the last registration wins) and    *)
(* leaves every other binding as it was; nothing else changes the          *)
(* registry, and an execute_task started later for that capability         *)
(* resolves the agent registered last.                                     *)

BindsOnly(name, agent) ==
    /\ DOMAIN agents' = DOMAIN agents \cup {name}
    /\ agents'[name] = agent
    /\ \A k \in DOMAIN agents \ {name} : agents'[k] = agents[k]

C15_AlwaysRegisters ==
    \A name \in LaterTypes, agent \in LaterInstances :
        ENABLED (RegisterAgent(name, agent) /\ BindsOnly(name, agent))

C15_Step ==
    /\ agents' # agents
       => \E name \in LaterTypes, agent \in LaterInstances :
             /\ BindsOnly(name, agent)
             /\ UNCHANGED <<tasks, calls, invocations, routines>>
    /\ \A c \in NewCalls :
          LET C == CapabilityOf(tasks'[calls'[c].task].task_type) IN
          C \in DOMAIN agents => calls'[c].agent = agents[C]

C15_LastWriterWins == []C15_AlwaysRegisters /\ [][C15_Step]_vars

\* a capability bound at startup was registered again with another agent:
\* a call made before resolved the first agent, a call made after resolves
\* the second, and another capability kept its binding
C15_Witness ==
    \E c, d \in DOMAIN calls :
        /\ c < d
        /\ calls[c].task = calls[d].task
        /\ calls[c].agent = StartupInstance
        /\ calls[d].agent \in LaterInstances
        /\ agents[AgentTypeOf(tasks[calls[d].task])] = calls[d].agent
        /\ \E k \in DOMAIN agents : agents[k] = StartupInstance

----------------------------------------------------------------------------
(* Vocabulary of the engine's properties *)

NewRequests == DOMAIN requests' \ DOMAIN requests
NewLoads == DOMAIN loads' \ DOMAIN loads
SessionsOf(model_id) == { n \in DOMAIN sessions : sessions[n].model_id = model_id }
RunsOf(q) == { i \in DOMAIN runs : runs[i].request = q }
Serviced(q) == RunsOf(q) # {}
FailedRequest(q) == requests[q].out.kind = "raise"
SameRequest(a, b) ==
    /\ requests[a].model_id = requests[b].model_id
    /\ requests[a].inputs = requests[b].inputs

----------------------------------------------------------------------------
(* C16: with one caller at a time, load_model is idempotent per model id:  *)
(* at most one inference session is ever created for an id, a load_model   *)
(* for an id that is already cached ends at once without creating one,     *)
(* whatever its path, and an entry of the model cache never changes or     *)
(* disappears.                                                             *)

C16_LoadedOnce ==
    ~overlapped
    => \A id \in ModelIds :
          /\ Cardinality(SessionsOf(id)) <= 1
          /\ id \in DOMAIN model_cache
             => SessionsOf(id) = {model_cache[id].session}

C16_Step ==
    ~overlapped'
    => /\ \A id \in DOMAIN model_cache :
             id \in DOMAIN model_cache' /\ model_cache'[id] = model_cache[id]
       /\ \A l \in NewLoads :
             loads'[l].model_id \in DOMAIN model_cache
             => /\ loads'[l].pc = "done"
                /\ loads'[l].out = Return(None)
                /\ sessions' = sessions
                /\ model_cache' = model_cache

C16_LoadIdempotent == []C16_LoadedOnce /\ [][C16_Step]_vars

\* a model was loaded, and a second load_model for its id, given another
\* path, ended without creating a session
C16_Witness ==
    /\ ~overlapped
    /\ \E l, m \in DOMAIN loads :
          /\ l < m
          /\ loads[l].model_id = loads[m].model_id
          /\ loads[l].path # loads[m].path
          /\ loads[m].out = Return(None)
          /\ Cardinality(SessionsOf(loads[l].model_id)) = 1

----------------------------------------------------------------------------
(* C17: cache correctness: of the run_inference calls made with the same   *)
(* (model_id, inputs), at most one invokes session.run without failing,    *)
(* and all that return hand back the same output.                          *)

C17_CacheCorrect ==
    \A a, b \in DOMAIN requests :
        a < b /\ SameRequest(a, b)
        => /\ ~( /\ Serviced(a) /\ ~FailedRequest(a)
                 /\ Serviced(b) /\ ~FailedRequest(b) )
           /\ requests[a].out.kind = "return" /\ requests[b].out.kind = "return"
              => requests[a].out.value = requests[b].out.value

----------------------------------------------------------------------------
(* C18: priority ordering: a request is never serviced (session.run        *)
(* invoked for it) while another request that was made before that moment  *)
(* and is still waiting for the resource should go first: one of a more    *)
(* urgent priority, or of the same priority and made earlier.              *)

\* request q had been made and was still to be serviced when runs[i] began
WasPendingAt(q, i) ==
    /\ q <= runs[i].submitted
    /\ q # runs[i].request
    /\ \/ requests[q].pc = "pending"
       \/ \E j \in DOMAIN runs : j > i /\ runs[j].request = q

GoesBefore(a, b) ==
    \/ requests[a].priority < requests[b].priority
    \/ requests[a].priority = requests[b].priority /\ a < b

C18_PriorityOrder ==
    \A i \in DOMAIN runs : \A q \in DOMAIN requests :
        WasPendingAt(q, i) => GoesBefore(runs[i].request, q)

----------------------------------------------------------------------------
(* C19: run_inference for a model id that has no entry in the model cache, *)
(* and with no cached result under the key of its inputs, raises the       *)
(* model-not-loaded ValueError at once, without invoking session.run and   *)
(* without changing the model cache or the result cache.                   *)

C19_Step ==
    \A q \in NewRequests :
        /\ requests'[q].model_id \notin DOMAIN model_cache
        /\ CacheKey(requests'[q].model_id, requests'[q].inputs) \notin DOMAIN result_cache
        => /\ requests'[q].pc = "done"
           /\ requests'[q].out.kind = "raise"
           /\ requests'[q].out.exc.kind = "ValueError"
           /\ requests'[q].out.exc.msg = <<"Model ", requests'[q].model_id, " not loaded">>
           /\ runs' = runs
           /\ model_cache' = model_cache
           /\ result_cache' = result_cache

C19_NeverServiced ==
    \A q \in DOMAIN requests :
        requests[q].out.kind = "raise" /\ requests[q].out.exc.kind = "ValueError"
        => ~Serviced(q)

C19_ModelNotLoaded == []C19_NeverServiced /\ [][C19_Step]_vars

\* a request for a model that was never loaded was refused, while another
\* model was loaded and had served a request
C19_Witness ==
    \E p, q \in DOMAIN requests :
        /\ p < q
        /\ requests[p].out.kind = "return"
        /\ requests[q].model_id \notin DOMAIN model_cache
        /\ requests[q].out.kind = "raise"
        /\ requests[q].out.exc.kind = "ValueError"

----------------------------------------------------------------------------
(* C20: when session.run fails inside run_inference, the call invoked it   *)
(* exactly once, and what the caller gets is an InferenceError that        *)
(* carries the model id and the priority of the request.                   *)

C20_Step ==
    \A q \in DOMAIN requests :
        requests[q].pc = "running" /\ requests'[q].out.kind = "raise"
        => /\ Cardinality({ i \in DOMAIN runs' : runs'[i].request = q }) = 1
           /\ requests'[q].out.exc.kind = "InferenceError"
           /\ "model_id" \in DOMAIN requests'[q].out.exc
           /\ requests'[q].out.exc.model_id = requests[q].model_id
           /\ "priority" \in DOMAIN requests'[q].out.exc
           /\ requests'[q].out.exc.priority = requests[q].priority

C20_InferenceError == [][C20_Step]_vars

----------------------------------------------------------------------------
(* C21: the result cache is keyed by (model id, inputs): an output that    *)
(* run_inference returns was computed by a session.run invocation made for *)
(* the same model id and an equal inputs payload, and requests with the    *)
(* same model id and equal inputs have the same cache key.                 *)

\* the output of request q was computed for q's own model id and inputs
ComputedForIt(q) ==
    \E i \in DOMAIN runs :
        /\ SameRequest(runs[i].request, q)
        /\ requests[runs[i].request].out.kind = "return"
        /\ requests[runs[i].request].out.value = requests[q].out.value

C21_KeyedByPayload ==
    /\ \A q \in DOMAIN requests :
          requests[q].out.kind = "return" => ComputedForIt(q)
    /\ \A a, b \in DOMAIN requests :
          SameRequest(a, b) => requests[a].key = requests[b].key

----------------------------------------------------------------------------
(* C22: in 'travel_disruption' the gate's completion comes before the      *)
(* dispatch of the dependent group: a dependent task exists, leaves        *)
(* pending or has its agent invoked only when the gate task is completed,  *)
(* and it was completed already before the step that dispatches them.      *)

GateTask(r) == routines[r].tasks[1]
DependentTasks(r) == Range(Tail(routines[r].tasks))

C22_GateCompleted ==
    \A r \in Travel :
        DependentTasks(r) # {}
        => /\ tasks[GateTask(r)].task_type = <<"travel", Dot, "disruption_detector">>
           /\ tasks[GateTask(r)].status = "completed"
           /\ \A t \in DependentTasks(r) : tasks[t].task_type \in DependentTypes
           /\ \A i \in DOMAIN invocations :
                 invocations[i].task \in DependentTasks(r)
                 => \E g \in 1..(i - 1) : invocations[g].task = GateTask(r)

C22_Step ==
    \A r \in DOMAIN routines :
        routines[r].name = "travel_disruption"
        => \A t \in Range(routines'[r].tasks) :
              /\ tasks'[t].task_type \in DependentTypes
              /\ \/ tasks'[t].status # "pending"
                 \/ \E i \in NewInvocations : invocations'[i].task = t
              /\ t \notin DOMAIN tasks \/ tasks[t].status = "pending"
              => /\ routines[r].tasks # <<>>
                 /\ tasks[GateTask(r)].status = "completed"

C22_GateBeforeDependents == []C22_GateCompleted /\ [][C22_Step]_vars

\* both dependent agents were invoked, after the gate's, the gate completed
C22_Witness ==
    \E r \in Travel :
        /\ Cardinality(DependentTasks(r)) = 2
        /\ tasks[GateTask(r)].status = "completed"
        /\ \A t \in DependentTasks(r) : InvocationsFor(t) # {}

----------------------------------------------------------------------------
(* C23: the inference call path never uses the priority queue:             *)
(* inference_queue stays empty; a run_inference call that needs the        *)
(* resource invokes session.run itself, and nothing holds it back,         *)
(* whatever its priority and whatever else is waiting; so calls made one   *)
(* after the other are serviced in the order of the calls.                 *)

C23_Immediate ==
    /\ inference_queue = <<>>
    /\ \A q \in DOMAIN requests :
          requests[q].pc = "pending" => ENABLED SessionRun(q)
    /\ ~overlapped
       => \A i, j \in DOMAIN runs : i < j => runs[i].request < runs[j].request

C23_Step ==
    /\ inference_queue' = inference_queue
    /\ \A i \in DOMAIN runs' \ DOMAIN runs :
          /\ runs'[i].request \in DOMAIN requests
          /\ requests[runs'[i].request].pc = "pending"
          /\ requests'[runs'[i].request].pc = "running"

----------------------------------------------------------------------------
(* C24: entries of the result cache are never removed, and over calls made *)
(* one after the other never overwritten: a key once present stays         *)
(* present, and the output stored under it does not change.                *)

C24_Step ==
    \A k \in DOMAIN result_cache :
        /\ k \in DOMAIN result_cache'
        /\ ~overlapped' => result_cache'[k] = result_cache[k]

----------------------------------------------------------------------------
(* C25: under concurrent callers a model is still loaded at most once:     *)
(* when load_model is called with the same model id by two callers at the  *)
(* same time, one inference session is created for that id, not two.       *)

C25_LoadedOnceConcurrently ==
    \A id \in ModelIds : Cardinality(SessionsOf(id)) <= 1

----------------------------------------------------------------------------
(* C29: when session.run fails inside run_inference, the result cache and  *)
(* the model cache are left as they were; so a later run_inference with    *)
(* the same model id and inputs, finding nothing stored under its key,     *)
(* goes on to invoke session.run and returns no cached failure.            *)

C29_Step ==
    /\ \A q \in DOMAIN requests :
          requests[q].pc = "running" /\ requests'[q].out.kind = "raise"
          => /\ result_cache' = result_cache
             /\ model_cache' = model_cache
    /\ \A q \in NewRequests :
          ( /\ \E p \in DOMAIN requests :
                  /\ requests[p].model_id = requests'[q].model_id
                  /\ requests[p].inputs = requests'[q].inputs
                  /\ Serviced(p) /\ FailedRequest(p)
            /\ \A p \in DOMAIN requests :
                  requests[p].key = requests'[q].key
                  => requests[p].out.kind # "return" )
          => /\ requests'[q].pc = "pending"
             /\ requests'[q].out.kind = "none"

C29_FailureNotCached == [][C29_Step]_vars

\* session.run failed for a request, and was invoked again for a later
\* request with the same model id and inputs
C29_Witness ==
    \E p, q \in DOMAIN requests :
        /\ p < q
        /\ SameRequest(p, q)
        /\ Serviced(p) /\ FailedRequest(p)
        /\ requests[q].pc # "pending" /\ Serviced(q)
        /\ result_cache = <<>> \/ requests[q].out.kind = "return"

----------------------------------------------------------------------------
(* C30: every entry of the result cache was produced by a request for a    *)
(* model id that is in the model cache, and every request that returned an *)
(* output, computed or cached, was for a model id that is in it.           *)

C30_CachedForLoadedModel ==
    /\ \A k \in DOMAIN result_cache :
          \E q \in DOMAIN requests :
              /\ requests[q].key = k
              /\ Serviced(q)
              /\ requests[q].out = Return(result_cache[k])
              /\ requests[q].model_id \in DOMAIN model_cache
    /\ \A q \in DOMAIN requests :
          requests[q].out.kind = "return"
          => requests[q].model_id \in DOMAIN model_cache

\* a cached output was returned while another model was not loaded
C30_Witness ==
    /\ DOMAIN model_cache # ModelIds
    /\ \E p, q \in DOMAIN requests :
          /\ p < q
          /\ requests[p].key = requests[q].key
          /\ Serviced(p) /\ ~Serviced(q)
          /\ requests[q].key \in DOMAIN result_cache
          /\ requests[q].out = Return(result_cache[requests[q].key])

----------------------------------------------------------------------------
(* C26: execute_task and orchestrate_routine change only the status and    *)
(* the result of the tasks they dispatch: every task keeps its kind, its   *)
(* parameters and its priority, a task changes only if an execute_task     *)
(* call was made for it, and the agents table changes in no step of a task *)
(* or routine execution (only register_agent writes it).                   *)

C26_Step ==
    /\ \A t \in DOMAIN tasks :
          /\ tasks'[t].task_type = tasks[t].task_type
          /\ tasks'[t].parameters = tasks[t].parameters
          /\ tasks'[t].priority = tasks[t].priority
          /\ tasks'[t] # tasks[t]
             => \E c \in DOMAIN calls' : calls'[c].task = t
    /\ agents' # agents
       => UNCHANGED <<tasks, calls, invocations, routines>>

C26_OnlyStatusAndResult == [][C26_Step]_vars

\* a task of the morning routine was dispatched and completed, and but for
\* its status and result it is the task the routine built
C26_Witness ==
    \E r \in DOMAIN routines :
        /\ routines[r].name = "morning_routine"
        /\ \E i \in DOMAIN routines[r].tasks :
              LET t == routines[r].tasks[i] IN
              /\ tasks[t].status = "completed"
              /\ tasks[t].result # None
              /\ [tasks[t] EXCEPT !.status = "pending", !.result = None]
                    = MorningTasks(routines[r].context)[i]

----------------------------------------------------------------------------
(* C27: an execute_task call that fails because no agent is registered for *)
(* the task's capability leaves the task as it was, pending with result    *)
(* None if it was never dispatched before; so a routine whose gathered     *)
(* group holds such a task fails while that task is still pending.         *)

C27_Step ==
    \A c \in NewCalls :
        calls'[c].agent = ""
        => LET t == calls'[c].task IN
           IF t \in DOMAIN tasks THEN tasks'[t] = tasks[t]
           ELSE tasks'[t].status = "pending" /\ tasks'[t].result = None

C27_Pending ==
    \A r \in DOMAIN routines :
        \A i \in DOMAIN routines[r].children :
            LET c == routines[r].children[i] IN
            calls[c].agent = ""
            => /\ tasks[calls[c].task].status = "pending"
               /\ tasks[calls[c].task].result = None
               /\ routines[r].outer.kind = "raise"
               /\ Done(r) => routines[r].out.kind = "raise"

C27_NoAgentLeavesTask == []C27_Pending /\ [][C27_Step]_vars

\* a routine has failed, one task of its group pending for want of an agent
\* and another dispatched
C27_Witness ==
    \E r \in DOMAIN routines :
        /\ Done(r)
        /\ routines[r].out.kind = "raise"
        /\ \E i, j \in DOMAIN routines[r].children :
              /\ calls[routines[r].children[i]].agent = ""
              /\ tasks[calls[routines[r].children[i]].task].status = "pending"
              /\ Dispatched(routines[r].children[j])

----------------------------------------------------------------------------
(* C28: the result of a group that succeeded is positional: new_route is   *)
(* the route_optimizer task's result and notifications the                 *)
(* contact_notifier task's, and the results of the morning routine list    *)
(* the results of coffee_maker, lights, news and sleep_analysis in that    *)
(* order, in whatever order the agents finished.                           *)

MorningTypes ==
    << <<"home", Dot, "coffee_maker">>, <<"home", Dot, "lights">>,
       <<"communication", Dot, "news">>, <<"wellness", Dot, "sleep_analysis">> >>

ResultOf(r, tt) ==
    LET c == CHOOSE c \in Range(routines[r].children) :
                 tasks[calls[c].task].task_type = tt
    IN calls[c].agentOut.value

C28_Positional ==
    \A r \in DOMAIN routines :
        Done(r) /\ routines[r].out.kind = "return" /\ routines[r].children # <<>>
        => /\ \A c \in Range(routines[r].children) : calls[c].agentOut.kind = "return"
           /\ IF routines[r].name = "morning_routine"
              THEN routines[r].out.value.items["results"]
                      = [i \in 1..4 |-> ResultOf(r, MorningTypes[i])]
              ELSE /\ routines[r].out.value.items["new_route"] = ResultOf(r, RerouteType)
                   /\ routines[r].out.value.items["notifications"] = ResultOf(r, NotifyType)

\* the morning routine returned four results, no two of them equal
C28_Witness ==
    \E r \in DOMAIN routines :
        /\ routines[r].name = "morning_routine"
        /\ Done(r) /\ routines[r].out.kind = "return"
        /\ LET res == routines[r].out.value.items["results"] IN
           /\ Len(res) = 4
           /\ \A i, j \in 1..4 : i # j => res[i] # res[j]

====
